---- MODULE Spec2Model ----
(***************************************************************************)
(* Class scheduler on an ordered transactional key-value store             *)
(* (cmd/class_scheduler/main.go).  The store holds two kinds of records    *)
(* under the "scheduling" directory:                                       *)
(*     courseSS.Pack((class))           = seatsAvailable                   *)
(*     attendSS.Pack((student, class))  = ""                               *)
(* Keys and values are byte strings, modelled as sequences of 0..255.      *)
(***************************************************************************)
EXTENDS Integers, Sequences, FiniteSets, TLC

(***************************************************************************)
(* Bounds of the model.                                                    *)
(***************************************************************************)
\* seat counts given to initialize range over 0..MaxSeats (and SampleSeats)
MaxSeats == 1
\* transient commit failures one call may meet before it commits
MaxRetries == 1
\* students racing for one class in SpecRace
NRace == 3
\* runs of the closure that are counted apart; further runs count as this many
MaxAttempts == 2

\* the seat count the source writes for every class
SampleSeats == 100

(***************************************************************************)
(* Bytes and byte strings.                                                 *)
(***************************************************************************)
RECURSIVE ByteLess(_, _)
\* bytes.Compare(a, b) < 0: the store's key order
ByteLess(a, b) ==
    IF b = <<>> THEN FALSE
    ELSE IF a = <<>> THEN TRUE
    ELSE IF Head(a) # Head(b) THEN Head(a) < Head(b)
    ELSE ByteLess(Tail(a), Tail(b))

HasPrefix(k, p) ==
    /\ Len(k) >= Len(p)
    /\ SubSeq(k, 1, Len(p)) = p

\* the names used as inputs: "a", "ab" for classes, "s1", "s2", ... for students
ClassA == <<97>>
ClassAB == <<97, 98>>
ClassNames == {ClassA, ClassAB}
StudentName(i) == <<115, 48 + i>>

(***************************************************************************)
(* strconv.FormatInt(n, 10) and its inverse.                               *)
(***************************************************************************)
RECURSIVE FormatNat(_)
FormatNat(n) ==
    IF n < 10 THEN <<48 + n>>
    ELSE Append(FormatNat(n \div 10), 48 + (n % 10))

FormatInt(n) ==
    IF n < 0 THEN <<45>> \o FormatNat(0 - n) ELSE FormatNat(n)

RECURSIVE ParseNat(_)
ParseNat(b) ==
    IF b = <<>> THEN 0
    ELSE 10 * ParseNat(SubSeq(b, 1, Len(b) - 1)) + (b[Len(b)] - 48)

\* the integer a ClassRecord's value stands for
ParseInt(b) ==
    IF b # <<>> /\ Head(b) = 45 THEN 0 - ParseNat(Tail(b)) ELSE ParseNat(b)

(***************************************************************************)
(* The tuple layer: a string element is 0x02, its bytes with 0x00 escaped  *)
(* as 0x00 0xFF, then 0x00.                                                *)
(***************************************************************************)
RECURSIVE Escape(_)
Escape(s) ==
    IF s = <<>> THEN <<>>
    ELSE IF Head(s) = 0 THEN <<0, 255>> \o Escape(Tail(s))
    ELSE <<Head(s)>> \o Escape(Tail(s))

EncodeString(s) == <<2>> \o Escape(s) \o <<0>>

RECURSIVE TuplePack(_)
\* tuple.Tuple{...}.Pack()
TuplePack(t) ==
    IF t = <<>> THEN <<>> ELSE EncodeString(Head(t)) \o TuplePack(Tail(t))

RECURSIVE ScanString(_, _)
\* reads one escaped string off the front of b; acc is what was read so far
ScanString(b, acc) ==
    IF b = <<>> THEN [ok |-> FALSE, s |-> acc, rest |-> <<>>]
    ELSE IF Head(b) # 0 THEN ScanString(Tail(b), Append(acc, Head(b)))
    ELSE IF Len(b) >= 2 /\ b[2] = 255 THEN ScanString(Tail(Tail(b)), Append(acc, 0))
    ELSE [ok |-> TRUE, s |-> acc, rest |-> Tail(b)]

RECURSIVE TupleUnpack(_)
\* tuple.Unpack(b): the elements, or an error on bytes that are no tuple
TupleUnpack(b) ==
    IF b = <<>> THEN [ok |-> TRUE, t |-> <<>>]
    ELSE IF Head(b) # 2 THEN [ok |-> FALSE, t |-> <<>>]
    ELSE LET e == ScanString(Tail(b), <<>>)
         IN  IF ~e.ok THEN [ok |-> FALSE, t |-> <<>>]
             ELSE LET r == TupleUnpack(e.rest)
                  IN  [ok |-> r.ok, t |-> <<e.s>> \o r.t]

(***************************************************************************)
(* Directory and subspaces.                                                *)
(***************************************************************************)
\* the prefix the directory layer allocated for ("scheduling")
schedulingDir == <<21, 7>>
\* schedulingDir.Sub("class")
courseSS == schedulingDir \o TuplePack(<< <<99, 108, 97, 115, 115>> >>)
\* schedulingDir.Sub("attends")
attendSS == schedulingDir \o TuplePack(<< <<97, 116, 116, 101, 110, 100, 115>> >>)

\* subspace.Pack(t)
Pack(ss, t) == ss \o TuplePack(t)

\* subspace.Unpack(k)
Unpack(ss, k) ==
    IF HasPrefix(k, ss) THEN TupleUnpack(SubSeq(k, Len(ss) + 1, Len(k)))
    ELSE [ok |-> FALSE, t |-> <<>>]

\* the key range of a subspace: [prefix 0x00, prefix 0xFF)
InRange(ss, k) ==
    /\ ~ByteLess(k, ss \o <<0>>)
    /\ ByteLess(k, ss \o <<255>>)

(***************************************************************************)
(* The store: a finite map from keys to values, and the mutations a        *)
(* transaction buffers until it commits.                                   *)
(***************************************************************************)
Set(k, v) == [type |-> "set", key |-> k, value |-> v]
Clear(k) == [type |-> "clear", key |-> k, value |-> <<>>]
\* ClearRange over the range of a subspace or directory
ClearRange(ss) == [type |-> "clear_range", key |-> ss, value |-> <<>>]

ApplyMutation(d, m) ==
    IF m.type = "set"
    THEN [k \in DOMAIN d \cup {m.key} |-> IF k = m.key THEN m.value ELSE d[k]]
    ELSE IF m.type = "clear"
    THEN [k \in DOMAIN d \ {m.key} |-> d[k]]
    ELSE [k \in {x \in DOMAIN d : ~InRange(m.key, x)} |-> d[k]]

RECURSIVE ApplyAll(_, _)
\* a commit: the buffered mutations take effect in order, atomically
ApplyAll(d, w) ==
    IF w = <<>> THEN d ELSE ApplyAll(ApplyMutation(d, Head(w)), Tail(w))

RECURSIVE SortKeys(_)
SortKeys(S) ==
    IF S = {} THEN <<>>
    ELSE LET m == CHOOSE x \in S : \A y \in S \ {x} : ByteLess(x, y)
         IN  <<m>> \o SortKeys(S \ {m})

\* rtr.GetRange(ss, RangeOptions{}): the keys of the range, in key order
GetRange(d, ss) == SortKeys({k \in DOMAIN d : InRange(ss, k)})

(***************************************************************************)
(* The transactional functions of main.go.  A writing function buffers its *)
(* mutations; the reading one computes its result from the store it reads. *)
(***************************************************************************)
\* SeatsValue with the count off by one
SeatsValueOffByOne(seats) == FormatInt(seats - 1)

\* the ClassRecord value initialize writes for a seat count
SeatsValue(seats) == FormatInt(seats)

\* initialize clearing the class region only
initializeClassesOnly(classes, seats) ==
    <<ClearRange(courseSS)>> \o
    [i \in 1..Len(classes) |-> Set(Pack(courseSS, <<classes[i]>>), FormatInt(seats))]

\* lines 132-141: clear the directory, then one ClassRecord per class
initialize(classes, seats) ==
    <<ClearRange(schedulingDir)>> \o
    [i \in 1..Len(classes) |-> Set(Pack(courseSS, <<classes[i]>>), SeatsValue(seats))]

\* signup writing a record keyed by the student alone
signupStudentKey(studentID, class) ==
    << Set(Pack(attendSS, <<studentID>>), <<>>) >>

\* lines 174-182
signup(studentID, class) ==
    << Set(Pack(attendSS, <<studentID, class>>), <<>>) >>

\* drop with the elements of the key swapped
dropSwapped(studentID, class) ==
    << Clear(Pack(attendSS, <<class, studentID>>)) >>

\* lines 187-195
drop(studentID, class) ==
    << Clear(Pack(attendSS, <<studentID, class>>)) >>

RECURSIVE UnpackAll(_, _)
\* the loop of lines 153-160 over the keys the iterator yields
UnpackAll(keys, acc) ==
    IF keys = <<>> THEN [err |-> "nil", classes |-> acc]
    ELSE LET t == Unpack(courseSS, Head(keys))
         IN  IF ~t.ok \/ t.t = <<>> THEN [err |-> "unpack", classes |-> <<>>]
             ELSE UnpackAll(Tail(keys), Append(acc, t.t[1]))

\* availableClasses scanning the whole directory
availableClassesWholeDir(d) == UnpackAll(GetRange(d, schedulingDir), <<>>)

\* lines 149-167
availableClasses(d) == UnpackAll(GetRange(d, courseSS), <<>>)

(***************************************************************************)
(* Reading the store as the data model describes it.                       *)
(***************************************************************************)
ClassKey(c) == Pack(courseSS, <<c>>)
AttendKey(s, c) == Pack(attendSS, <<s, c>>)
HasClass(d, c) == ClassKey(c) \in DOMAIN d
SeatsAvailable(d, c) == ParseInt(d[ClassKey(c)])
Enrolled(d, s, c) == AttendKey(s, c) \in DOMAIN d
ClassKeys(d) == {k \in DOMAIN d : HasPrefix(k, courseSS)}
AttendKeys(d) == {k \in DOMAIN d : HasPrefix(k, attendSS)}
\* the students holding an AttendanceRecord for class c
Attendees(d, c) ==
    {k \in AttendKeys(d) :
        LET t == Unpack(attendSS, k) IN t.ok /\ Len(t.t) = 2 /\ t.t[2] = c}

(***************************************************************************)
(* Inputs.  The class list and the seat count of initialize are inputs:    *)
(* the source passes its sample list and the literal SampleSeats.  Caller  *)
(* p signs up and drops as student StudentName(p).                         *)
(***************************************************************************)
Callers == {1, 2}
ClassLists == {<<ClassA>>, <<ClassAB, ClassA>>}
SeatCounts == (0..MaxSeats) \cup {SampleSeats}
Range(q) == {q[i] : i \in DOMAIN q}

(***************************************************************************)
(* State.                                                                  *)
(*   db       the committed contents of the store                          *)
(*   pc       per caller: "idle", "commit" (closure run, commit pending),  *)
(*            "done" (the call returned and its result is in ret)          *)
(*   call     per caller: the call in progress                             *)
(*   wset     per caller: the mutations its transaction buffers            *)
(*   retries  per caller: failed commits of the call so far                *)
(*   ret      per caller: what the call returned                           *)
(*   tr       per caller: the transaction a hand-written loop created      *)
(* History variables, read by the properties only:                         *)
(*   lastInit what the last committed initialize wrote                     *)
(*   last     what the most recent call found in the store when it acted   *)
(*   hist     with a single caller, a signup and the call on the same pair *)
(*            that followed it                                             *)
(***************************************************************************)
VARIABLES db, pc, call, wset, retries, ret, tr, lastInit, last, hist

vars == <<db, pc, call, wset, retries, ret, tr, lastInit, last, hist>>

NoCall == [op |-> "none", student |-> <<>>, class |-> <<>>, classes |-> <<>>, seats |-> 0,
           parts |-> <<>>, todo |-> <<>>]
NoRet == [err |-> "none", classes |-> <<>>]
NoTr == [state |-> "none", expired |-> FALSE]
NoLast == [caller |-> 0, exists |-> FALSE, enrolled |-> FALSE, attends |-> FALSE]
EmptyStore == [k \in {} |-> <<>>]

\* the closure a call passes to Transact
Body(c) ==
    IF c.op = "initialize" THEN initialize(c.classes, c.seats)
    ELSE IF c.op = "signup" THEN signup(c.student, c.class)
    ELSE drop(c.student, c.class)

InitFor(P, d, li) ==
    /\ db = d
    /\ pc = [p \in P |-> "idle"]
    /\ call = [p \in P |-> NoCall]
    /\ wset = [p \in P |-> <<>>]
    /\ retries = [p \in P |-> 0]
    /\ ret = [p \in P |-> NoRet]
    /\ tr = [p \in P |-> NoTr]
    /\ lastInit = li
    /\ last = NoLast
    /\ hist = <<>>

\* a fresh "scheduling" directory
Init == InitFor(Callers, EmptyStore, [classes |-> {}, seats |-> 0])

\* Transact: a transaction is created and the closure run; it only buffers
Begin(p, c) ==
    /\ pc[p] = "idle"
    /\ pc' = [pc EXCEPT ![p] = "commit"]
    /\ call' = [call EXCEPT ![p] = c]
    /\ wset' = [wset EXCEPT ![p] = Body(c)]
    /\ retries' = [retries EXCEPT ![p] = 0]
    /\ UNCHANGED <<db, ret, tr, lastInit, last, hist>>

Initialize(p) ==
    \E cl \in ClassLists, n \in SeatCounts :
        Begin(p, [NoCall EXCEPT !.op = "initialize", !.classes = cl, !.seats = n])

\* caller p is the student StudentName(p)
Signup(p) ==
    \E c \in ClassNames :
        Begin(p, [NoCall EXCEPT !.op = "signup", !.student = StudentName(p), !.class = c])

Drop(p) ==
    \E c \in ClassNames :
        Begin(p, [NoCall EXCEPT !.op = "drop", !.student = StudentName(p), !.class = c])

\* what the committing call of p finds in the store
Found(p) ==
    LET c == call[p] IN
    [caller   |-> p,
     exists   |-> IF c.op = "initialize"
                  THEN \E k \in ClassKeys(db) : k \notin {ClassKey(x) : x \in Range(c.classes)}
                  ELSE HasClass(db, c.class),
     enrolled |-> c.op # "initialize" /\ Enrolled(db, c.student, c.class),
     attends  |-> AttendKeys(db) # {}]

HistEntry(p) ==
    LET c == call[p] IN
    [op |-> c.op, student |-> c.student, class |-> c.class,
     exists |-> HasClass(db, c.class),
     seats |-> IF HasClass(db, c.class) THEN SeatsAvailable(db, c.class) ELSE 0,
     enrolled |-> Enrolled(db, c.student, c.class),
     changed |-> ApplyAll(db, wset[p]) # db]

\* the commit succeeds: the buffered mutations take effect and the call returns nil
Commit(p) ==
    /\ pc[p] = "commit"
    /\ db' = ApplyAll(db, wset[p])
    /\ pc' = [pc EXCEPT ![p] = "done"]
    /\ ret' = [ret EXCEPT ![p] = [err |-> "nil", classes |-> <<>>]]
    /\ lastInit' = IF call[p].op = "initialize"
                   THEN [classes |-> Range(call[p].classes), seats |-> call[p].seats]
                   ELSE lastInit
    /\ last' = Found(p)
    /\ hist' = IF Cardinality(DOMAIN pc) # 1 \/ call[p].op = "initialize" THEN <<>>
               ELSE IF Len(hist) = 1 /\ hist[1].student = call[p].student
                                     /\ hist[1].class = call[p].class
                    THEN <<hist[1], HistEntry(p)>>
               ELSE IF call[p].op = "signup" THEN <<HistEntry(p)>>
               ELSE <<>>
    /\ UNCHANGED <<call, wset, retries, tr>>

\* the commit fails with a retryable error: nothing is applied, the
\* transaction is reset and the closure runs again
CommitFail(p) ==
    /\ pc[p] = "commit"
    /\ retries[p] < MaxRetries
    /\ retries' = [retries EXCEPT ![p] = @ + 1]
    /\ wset' = [wset EXCEPT ![p] = Body(call[p])]
    /\ UNCHANGED <<db, pc, call, ret, tr, lastInit, last, hist>>

\* ReadTransact: the range read sees one snapshot of the store; no commit
AvailableClasses(p) ==
    /\ pc[p] = "idle"
    /\ pc' = [pc EXCEPT ![p] = "done"]
    /\ call' = [call EXCEPT ![p] = [NoCall EXCEPT !.op = "list"]]
    /\ ret' = [ret EXCEPT ![p] = availableClasses(db)]
    /\ last' = [caller |-> p, exists |-> ClassKeys(db) # {}, enrolled |-> FALSE,
                attends |-> AttendKeys(db) # {}]
    /\ UNCHANGED <<db, wset, retries, tr, lastInit, hist>>

\* the caller takes the result and may call again
Return(p) ==
    /\ pc[p] = "done"
    /\ pc' = [pc EXCEPT ![p] = "idle"]
    /\ call' = [call EXCEPT ![p] = NoCall]
    /\ wset' = [wset EXCEPT ![p] = <<>>]
    /\ retries' = [retries EXCEPT ![p] = 0]
    /\ ret' = [ret EXCEPT ![p] = NoRet]
    /\ tr' = [tr EXCEPT ![p] = NoTr]
    /\ last' = IF last.caller = p THEN NoLast ELSE last
    /\ UNCHANGED <<db, lastInit, hist>>

Next ==
    \E p \in DOMAIN pc :
        \/ Initialize(p)
        \/ Signup(p)
        \/ Drop(p)
        \/ AvailableClasses(p)
        \/ Commit(p)
        \/ CommitFail(p)
        \/ Return(p)

Spec == Init /\ [][Next]_vars

\* one caller issuing its calls in sequence
InitSeq == InitFor({1}, EmptyStore, [classes |-> {}, seats |-> 0])

SpecSeq == InitSeq /\ [][Next]_vars

\* NRace students, each issuing one signup for class "a", which initialize
\* has just given some seat count
InitRace ==
    \E n \in SeatCounts :
        InitFor(1..NRace, ApplyAll(EmptyStore, initialize(<<ClassA>>, n)),
                [classes |-> {ClassA}, seats |-> n])

RaceSignup(p) ==
    /\ ret[p] = NoRet
    /\ Begin(p, [NoCall EXCEPT !.op = "signup", !.student = StudentName(p), !.class = ClassA])

NextRace ==
    \E p \in DOMAIN pc :
        \/ RaceSignup(p)
        \/ Commit(p)
        \/ CommitFail(p)

SpecRace == InitRace /\ [][NextRace]_vars

(***************************************************************************)
(* signup written without Transact (lines 58-98): the caller creates the   *)
(* transaction and loops over wrapped() itself.  pc is "wrapped" before a  *)
(* run of wrapped(), "check" at line 85, "done" once the function has      *)
(* returned err (ret.err), "panicked" when a panic left it.  retries       *)
(* counts the runs of wrapped().                                           *)
(***************************************************************************)
Min(a, b) == IF a < b THEN a ELSE b

\* tr.Set on a transaction that may already buffer the same mutation
BufferSet(w, m) == IF m \in Range(w) THEN w ELSE Append(w, m)

\* Outcomes without the transaction timeout
OutcomesNoTimeout(t) == {"commit_ok", "retryable", "terminal", "panic"}

\* what a run of wrapped() can come to.  The transaction times out one
\* minute after it was created (line 109) and then fails every use.  Using
\* it again after it committed, without a reset, is left open: the commit
\* may succeed again or fail.  "panic" is a panic of the closure with a
\* value that is no fdb.Error.
Outcomes(t) ==
    IF t.expired THEN {"timed_out", "panic"}
    ELSE {"commit_ok", "retryable", "terminal", "panic"}

\* line 85: the loop returns err when it is not nil
LoopReturns(err) == err # "nil"

\* lines 60-63: db.CreateTransaction() succeeds
ManualSignup(p) ==
    /\ pc[p] = "idle"
    /\ \E c \in ClassNames :
          call' = [call EXCEPT ![p] =
                     [NoCall EXCEPT !.op = "manual_signup",
                                    !.student = StudentName(p), !.class = c]]
    /\ pc' = [pc EXCEPT ![p] = "wrapped"]
    /\ tr' = [tr EXCEPT ![p] = [state |-> "open", expired |-> FALSE]]
    /\ ret' = [ret EXCEPT ![p] = [err |-> "nil", classes |-> <<>>]]
    /\ wset' = [wset EXCEPT ![p] = <<>>]
    /\ retries' = [retries EXCEPT ![p] = 0]
    /\ UNCHANGED <<db, lastInit, last, hist>>

\* lines 60-63: db.CreateTransaction() fails and the function returns
ManualCreateFails(p) ==
    /\ pc[p] = "idle"
    /\ \E c \in ClassNames :
          call' = [call EXCEPT ![p] =
                     [NoCall EXCEPT !.op = "manual_signup",
                                    !.student = StudentName(p), !.class = c]]
    /\ pc' = [pc EXCEPT ![p] = "done"]
    /\ ret' = [ret EXCEPT ![p] = [err |-> "terminal", classes |-> <<>>]]
    /\ UNCHANGED <<db, wset, retries, tr, lastInit, last, hist>>

\* lines 65-80 and 83: one run of wrapped()
Wrapped(p) ==
    /\ pc[p] = "wrapped"
    /\ retries' = [retries EXCEPT ![p] = Min(@ + 1, MaxAttempts)]
    /\ \E o \in Outcomes(tr[p]) :
          LET w == BufferSet(wset[p], signup(call[p].student, call[p].class)[1]) IN
          IF o = "panic"
          THEN \* recover() re-panics: the panic leaves wrapped() and the function
               /\ pc' = [pc EXCEPT ![p] = "panicked"]
               /\ ret' = [ret EXCEPT ![p] = [err |-> "panic", classes |-> <<>>]]
               /\ UNCHANGED <<db, wset, tr>>
          ELSE /\ pc' = [pc EXCEPT ![p] = "check"]
               /\ wset' = [wset EXCEPT ![p] = w]
               /\ ret' = [ret EXCEPT ![p] =
                            [err |-> IF o = "commit_ok" THEN "nil" ELSE o, classes |-> <<>>]]
               /\ IF o = "commit_ok"
                  THEN /\ db' = ApplyAll(db, w)
                       /\ tr' = [tr EXCEPT ![p].state = "committed"]
                  ELSE UNCHANGED <<db, tr>>
    /\ UNCHANGED <<call, lastInit, last, hist>>

\* lines 85-96: with err not nil the function returns it; with err nil the
\* type assertion of line 89 fails, line 94 falls through and the loop
\* runs wrapped() again
LoopCheck(p) ==
    /\ pc[p] = "check"
    /\ pc' = [pc EXCEPT ![p] = IF LoopReturns(ret[p].err) THEN "done" ELSE "wrapped"]
    /\ UNCHANGED <<db, call, wset, retries, ret, tr, lastInit, last, hist>>

\* the transaction's one minute runs out
Expire(p) ==
    /\ pc[p] \in {"wrapped", "check"}
    /\ ~tr[p].expired
    /\ tr' = [tr EXCEPT ![p].expired = TRUE]
    /\ UNCHANGED <<db, pc, call, wset, retries, ret, lastInit, last, hist>>

InitLoop ==
    InitFor(Callers, ApplyAll(EmptyStore, initialize(<<ClassAB, ClassA>>, SampleSeats)),
            [classes |-> {ClassA, ClassAB}, seats |-> SampleSeats])

NextLoop ==
    \E p \in DOMAIN pc :
        \/ ManualSignup(p)
        \/ ManualCreateFails(p)
        \/ Wrapped(p)
        \/ LoopCheck(p)
        \/ Expire(p)
        \/ Return(p)

SpecLoop == InitLoop /\ [][NextLoop]_vars

\* the caller's goroutine keeps running and time passes
SpecLoopFair ==
    /\ InitLoop
    /\ [][NextLoop]_vars
    /\ \A p \in Callers : WF_vars(Wrapped(p)) /\ WF_vars(LoopCheck(p)) /\ WF_vars(Expire(p))

(***************************************************************************)
(* Composition (lines 40-55): a caller opens one transaction and passes it *)
(* as the Transactor to several of the transactional functions, then       *)
(* commits.  pc is "open" while calls of the composition remain to be      *)
(* made; call.parts are its calls, call.todo those not yet made.           *)
(***************************************************************************)
\* a nested Transact that opens and commits a transaction of its own
TransactOwnTransaction(d, w, body) == [db |-> ApplyAll(d, body), wset |-> w]

\* Transaction.Transact: the closure runs directly on the given
\* transaction; no commit, no retry
TransactOnTransaction(d, w, body) == [db |-> d, wset |-> w \o body]

SignupCall(p, c) == [NoCall EXCEPT !.op = "signup", !.student = StudentName(p), !.class = c]
DropCall(p, c) == [NoCall EXCEPT !.op = "drop", !.student = StudentName(p), !.class = c]

\* the compositions a caller makes: enrol in both classes, switch from "a"
\* to "ab", leave both
Compositions(p) ==
    { <<SignupCall(p, ClassA), SignupCall(p, ClassAB)>>,
      <<SignupCall(p, ClassAB), DropCall(p, ClassA)>>,
      <<DropCall(p, ClassA), DropCall(p, ClassAB)>> }

\* the mutations of all the calls of a composition, in order
RECURSIVE AllBodies(_)
AllBodies(cs) == IF cs = <<>> THEN <<>> ELSE Body(Head(cs)) \o AllBodies(Tail(cs))

\* the caller opens its transaction
Compose(p) ==
    /\ pc[p] = "idle"
    /\ \E cs \in Compositions(p) :
          call' = [call EXCEPT ![p] = [NoCall EXCEPT !.op = "compose", !.parts = cs, !.todo = cs]]
    /\ pc' = [pc EXCEPT ![p] = "open"]
    /\ wset' = [wset EXCEPT ![p] = <<>>]
    /\ retries' = [retries EXCEPT ![p] = 0]
    /\ UNCHANGED <<db, ret, tr, lastInit, last, hist>>

\* the next function of the composition is called with the open transaction
NestedCall(p) ==
    /\ pc[p] = "open"
    /\ LET r == TransactOnTransaction(db, wset[p], Body(Head(call[p].todo))) IN
          /\ db' = r.db
          /\ wset' = [wset EXCEPT ![p] = r.wset]
    /\ call' = [call EXCEPT ![p].todo = Tail(@)]
    /\ pc' = [pc EXCEPT ![p] = IF Len(call[p].todo) = 1 THEN "commit" ELSE "open"]
    /\ UNCHANGED <<retries, ret, tr, lastInit, last, hist>>

\* the caller's commit fails with a retryable error and the caller starts
\* the composition again
NestedRetry(p) ==
    /\ pc[p] = "commit"
    /\ call[p].op = "compose"
    /\ retries[p] < MaxRetries
    /\ retries' = [retries EXCEPT ![p] = @ + 1]
    /\ pc' = [pc EXCEPT ![p] = "open"]
    /\ wset' = [wset EXCEPT ![p] = <<>>]
    /\ call' = [call EXCEPT ![p].todo = call[p].parts]
    /\ UNCHANGED <<db, ret, tr, lastInit, last, hist>>

InitNest ==
    InitFor(Callers, ApplyAll(EmptyStore, initialize(<<ClassAB, ClassA>>, SampleSeats)),
            [classes |-> {ClassA, ClassAB}, seats |-> SampleSeats])

NextNest ==
    \E p \in DOMAIN pc :
        \/ Compose(p)
        \/ NestedCall(p)
        \/ Commit(p)
        \/ NestedRetry(p)
        \/ Return(p)

SpecNest == InitNest /\ [][NextNest]_vars

(***************************************************************************)
(* Properties.                                                             *)
(***************************************************************************)
\* the step in which the call of p returns
Finishes(p) == pc[p] # "done" /\ pc'[p] = "done"

\* C1: in every reachable state the seatsAvailable of every existing class
\* is >= 0 (initialize being given seat counts >= 0).
C1_SeatsNonNegative ==
    \A k \in ClassKeys(db) : ParseInt(db[k]) >= 0

\* a class with no seat left has a student signed up for it
C1_Witness ==
    \E c \in ClassNames :
        /\ HasClass(db, c)
        /\ SeatsAvailable(db, c) = 0
        /\ Attendees(db, c) # {}

\* C2: for a class initialized with K seats, when N >= K distinct students
\* each issue one signup for it concurrently, exactly K signups succeed,
\* exactly N-K return CapacityError, and seatsAvailable ends at 0.
C2_CapacityBound ==
    LET N == Cardinality(DOMAIN pc)
        K == lastInit.seats
    IN  ((\A p \in DOMAIN pc : pc[p] = "done" /\ call[p].op = "signup"
                                              /\ call[p].class = ClassA)
          /\ N >= K)
        => /\ Cardinality({p \in DOMAIN pc : ret[p].err = "nil"}) = K
           /\ Cardinality({p \in DOMAIN pc : ret[p].err = "CapacityError"}) = N - K
           /\ SeatsAvailable(db, ClassA) = 0

\* C3: for every class, seatsAvailable plus the number of its
\* AttendanceRecords equals the seat count the last initialize gave it.
C3_SeatsAccountForAttendance ==
    \A c \in ClassNames :
        HasClass(db, c) =>
            SeatsAvailable(db, c) + Cardinality(Attendees(db, c)) = lastInit.seats

\* C4: signup(s, c) called twice in sequence, for an existing class c with a
\* free seat and s not enrolled, leaves one AttendanceRecord for (s, c) and
\* seatsAvailable(c) decremented exactly once; the second call changes nothing.
C4_SignupIdempotent ==
    (/\ Len(hist) = 2
     /\ hist[1].op = "signup" /\ hist[2].op = "signup"
     /\ hist[1].exists /\ hist[1].seats > 0 /\ ~hist[1].enrolled)
    => /\ Enrolled(db, hist[1].student, hist[1].class)
       /\ ~hist[2].changed
       /\ HasClass(db, hist[1].class)
       /\ SeatsAvailable(db, hist[1].class) = hist[1].seats - 1

\* C5: for a class c with seatsAvailable = k > 0 and a student s not
\* enrolled in c, signup(s, c) followed by drop(s, c) restores
\* seatsAvailable(c) to k and leaves no AttendanceRecord for (s, c).
C5_SignupDropRoundTrip ==
    (/\ Len(hist) = 2
     /\ hist[1].op = "signup" /\ hist[2].op = "drop"
     /\ hist[1].exists /\ hist[1].seats > 0 /\ ~hist[1].enrolled)
    => /\ ~Enrolled(db, hist[1].student, hist[1].class)
       /\ HasClass(db, hist[1].class)
       /\ SeatsAvailable(db, hist[1].class) = hist[1].seats

\* the signup enrolled the student, the drop found the record and removed it
C5_Witness ==
    /\ Len(hist) = 2
    /\ hist[1].op = "signup" /\ hist[2].op = "drop"
    /\ hist[1].exists /\ hist[1].seats > 0 /\ ~hist[1].enrolled
    /\ hist[2].enrolled /\ hist[2].changed
    /\ ~Enrolled(db, hist[1].student, hist[1].class)

C7_UnknownClassRejected ==
    [][\A p \in DOMAIN pc :
          (/\ Finishes(p)
           /\ call[p].op = "signup"
           /\ ~HasClass(db, call[p].class))
          => (ret'[p].err = "NotFoundError" /\ db' = db)]_vars

\* C8: drop(s, c) with no AttendanceRecord for (s, c) succeeds and leaves
\* the whole store unchanged; with the record (and the class) there, it
\* deletes the record and increments seatsAvailable(c) by exactly one.
C8_DropEffect ==
    [][\A p \in DOMAIN pc :
          (Finishes(p) /\ call[p].op = "drop")
          => LET s == call[p].student
                 c == call[p].class
             IN  /\ ret'[p].err = "nil"
                 /\ ~Enrolled(db, s, c) => db' = db
                 /\ (Enrolled(db, s, c) /\ HasClass(db, c)) =>
                       /\ ~Enrolled(db', s, c)
                       /\ HasClass(db', c)
                       /\ SeatsAvailable(db', c) = SeatsAvailable(db, c) + 1]_vars

\* C9: when initialize(classNames, seatsPerClass) commits, the ClassRecords
\* are exactly classNames, each with seatsAvailable = seatsPerClass, and no
\* AttendanceRecord remains; no other step changes the set of class keys.
C9_InitializeIsFullReset ==
    [][\A p \in DOMAIN pc :
          IF Finishes(p) /\ call[p].op = "initialize"
          THEN /\ ClassKeys(db') = {ClassKey(c) : c \in Range(call[p].classes)}
               /\ \A c \in Range(call[p].classes) :
                     SeatsAvailable(db', c) = call[p].seats
               /\ AttendKeys(db') = {}
               /\ DOMAIN db' = ClassKeys(db')
          ELSE (\A q \in DOMAIN pc : ~(Finishes(q) /\ call[q].op = "initialize"))
               => ClassKeys(db') = ClassKeys(db)]_vars

\* an initialize has just committed over a store that held AttendanceRecords
\* and a class that is not in its list
C9_Witness ==
    \E p \in DOMAIN pc :
        /\ pc[p] = "done"
        /\ call[p].op = "initialize"
        /\ last.caller = p /\ last.exists /\ last.attends
        /\ AttendKeys(db) = {}
        /\ ClassKeys(db) = {ClassKey(c) : c \in Range(call[p].classes)}

\* names in strictly ascending lexicographic order
Ascending(q) == \A i \in 1..(Len(q) - 1) : ByteLess(q[i], q[i + 1])

\* C10: listClasses returns exactly the class names written by the last
\* initialize, in ascending lexicographic order with no duplicates, whatever
\* signups and drops were done since.
C10_ListingIsLastInitialize ==
    [][\A p \in DOMAIN pc :
          (Finishes(p) /\ call'[p].op = "list")
          => /\ ret'[p].err = "nil"
             /\ Range(ret'[p].classes) = lastInit.classes
             /\ Ascending(ret'[p].classes)]_vars

\* a listing of two classes read from a store that holds AttendanceRecords
C10_Witness ==
    \E p \in DOMAIN pc :
        /\ pc[p] = "done"
        /\ call[p].op = "list"
        /\ last.caller = p /\ last.attends
        /\ ret[p].classes = <<ClassA, ClassAB>>

\* the step taken by the hand-written loop of p
LoopSteps(p) == pc'[p] # pc[p]

\* C11: when a commit fails with a retryable error the runner retries from
\* the beginning on a clean transaction, running work again; when the error
\* is terminal it returns that error at once.
C11_RetryableIsRetried ==
    [][\A p \in DOMAIN pc :
          (pc[p] = "check" /\ LoopSteps(p))
          => /\ ret[p].err = "retryable" =>
                   /\ pc'[p] = "wrapped"
                   /\ wset'[p] = <<>>
                   /\ tr'[p].state = "open"
             /\ ret[p].err = "terminal" =>
                   /\ pc'[p] = "done"
                   /\ ret'[p].err = "terminal"]_vars

\* C12: when an attempt's commit succeeds the runner returns nil and stops;
\* it runs neither work nor commit again.
C12_StopsAfterCommit ==
    [][\A p \in DOMAIN pc :
          (pc[p] = "check" /\ ret[p].err = "nil" /\ LoopSteps(p))
          => (pc'[p] = "done" /\ ret'[p].err = "nil")]_vars

C14_NestedIsAtomic ==
    [][\A p \in DOMAIN pc :
          /\ (pc[p] = "open" /\ call'[p].todo # call[p].todo) =>
                /\ db' = db
                /\ wset'[p] = wset[p] \o Body(Head(call[p].todo))
                /\ retries'[p] = retries[p]
          /\ (pc[p] = "commit" /\ pc'[p] = "done") =>
                db' = ApplyAll(db, AllBodies(call[p].parts))
          /\ (pc[p] = "commit" /\ pc'[p] = "open") => db' = db
          /\ db' # db => \E q \in DOMAIN pc : pc[q] = "commit" /\ pc'[q] = "done"]_vars

\* a switch from "a" to "ab" committed in one piece after a retry, while
\* the other caller stays enrolled in "a"
C14_Witness ==
    \E p \in DOMAIN pc :
        /\ pc[p] = "done"
        /\ call[p].parts = <<SignupCall(p, ClassAB), DropCall(p, ClassA)>>
        /\ retries[p] >= 1
        /\ Enrolled(db, StudentName(p), ClassAB)
        /\ ~Enrolled(db, StudentName(p), ClassA)
        /\ \E q \in DOMAIN pc \ {p} : Enrolled(db, StudentName(q), ClassA)

C16_EnrollmentTransitions ==
    [][\A q \in DOMAIN pc : \A c \in ClassNames :
          LET s == StudentName(q) IN
          /\ (~Enrolled(db, s, c) /\ Enrolled(db', s, c)) =>
                \E p \in DOMAIN pc :
                    /\ Finishes(p)
                    /\ call[p].op = "signup"
                    /\ call[p].student = s
                    /\ call[p].class = c
                    /\ HasClass(db, c)
                    /\ SeatsAvailable(db, c) > 0
          /\ (Enrolled(db, s, c) /\ ~Enrolled(db', s, c)) =>
                \E p \in DOMAIN pc :
                    /\ Finishes(p)
                    /\ call[p].op = "drop"
                    /\ call[p].student = s
                    /\ call[p].class = c]_vars

\* C17: a call that has returned an error has left none of its writes in
\* the store.
C17_ErrorLeavesNoWrites ==
    \A p \in DOMAIN pc :
        (pc[p] = "done" /\ call[p].op = "manual_signup" /\ ret[p].err # "nil") =>
            ~(tr[p].state = "committed" /\ Enrolled(db, call[p].student, call[p].class))

\* C18: a drop(s, c) that finds the AttendanceRecord of (s, c) but no
\* ClassRecord of c returns NotFoundError and creates no ClassRecord of c.
C18_DropWithoutClass ==
    [][\A p \in DOMAIN pc :
          (/\ Finishes(p)
           /\ call[p].op = "drop"
           /\ Enrolled(db, call[p].student, call[p].class)
           /\ ~HasClass(db, call[p].class))
          => (ret'[p].err = "NotFoundError" /\ ~HasClass(db', call[p].class))]_vars

\* C19: every AttendanceRecord (student, class) is of a class that has a
\* ClassRecord.
C19_ReferentialIntegrity ==
    \A c \in ClassNames : Attendees(db, c) # {} => HasClass(db, c)

\* C20: a signup or drop of (s, c) leaves every key other than the
\* AttendanceRecord of (s, c) and the ClassRecord of c as it was, and the
\* set of class keys as it was; listing the classes leaves the store as it
\* was.
C20_Frame ==
    [][\A p \in DOMAIN pc :
          /\ (Finishes(p) /\ call[p].op \in {"signup", "drop"}) =>
                LET own == {AttendKey(call[p].student, call[p].class), ClassKey(call[p].class)} IN
                /\ DOMAIN db' \ own = DOMAIN db \ own
                /\ \A k \in DOMAIN db \ own : db'[k] = db[k]
                /\ ClassKeys(db') = ClassKeys(db)
          /\ (pc[p] = "idle" /\ pc'[p] = "done" /\ call'[p].op = "list") => db' = db]_vars

\* a signup has committed while the store held another class and another
\* AttendanceRecord of the same student
C20_Witness ==
    \E p \in DOMAIN pc :
        /\ pc[p] = "done"
        /\ call[p].op = "signup"
        /\ call[p].class = ClassA
        /\ Enrolled(db, StudentName(p), ClassA)
        /\ Enrolled(db, StudentName(p), ClassAB)
        /\ HasClass(db, ClassAB)
        /\ \E q \in DOMAIN pc \ {p} : Enrolled(db, StudentName(q), ClassAB)

====
